---- MODULE Spec2Model ----
(***************************************************************************)
(* The tool-calling agent loop of cafe.agents.tool_calling_snowflake_agent *)
(* as a state machine: the Model Gateway (SnowflakeApiModel), one step of  *)
(* the loop (ToolCallingSnowflakeAgent.step, execute_tool_call,            *)
(* _substitute_state_variables), the Memory Log -> message projection      *)
(* (write_memory_to_messages, action_step_to_messages) and the loop that   *)
(* drives the steps.  The loop itself is inherited (MultiStepAgent.run);   *)
(* StepEnd, MaxStepsReached and budget_left follow its description in the  *)
(* specification, sections 4.1 and 7.                                      *)
(*                                                                         *)
(* Python values are records [t, v, d]: t is the Python type, v the        *)
(* payload of a scalar, d the items of a dict (argument name -> leaf       *)
(* value [t, v]).  An Optional field is a sequence of length 0 (None) or 1.*)
(* A dict is a function, so the insertion order of its items is not kept,  *)
(* except for the two registries, which are sequences of names.            *)
(*                                                                         *)
(* Two more state machines stand beside the loop, each with a              *)
(* specification of its own: the SnowflakeClient singleton with its JWT    *)
(* cache (SpecClient), and JudgeAgent.run over its validation strategies,  *)
(* with execute_query (SpecJudge).                                         *)
(***************************************************************************)
EXTENDS Naturals, Sequences, FiniteSets, TLC

VARIABLES
    tools,            \* self.tools: the names of the registered tools, in dict order
    tool_inputs,      \* tool.inputs of every registered tool: property name -> declared property
    managed_agents,   \* self.managed_agents: the names of the managed agents
    state,            \* self.state: the State Store, key -> stored value
    max_steps,        \* the configured step budget
    memory,           \* self.memory.steps: the TaskStep, then the ActionSteps
    step_number,      \* self.step_number
    input_messages,   \* self.input_messages
    pc,               \* where the loop is: running, awaiting_model, awaiting_tool, step_done, done
    pending,          \* the tool invocation in flight (tool name, dispatched arguments, call id)
    result,           \* how the current step() left: returned a value, or raised
    request_tools,    \* data["tools"] of the request of the last model call, None if none was built
    raised,           \* the exception raised inside the try block of execute_tool_call, if any
    outcome,          \* how the run ended
    trace,            \* history: the model calls and tool invocations of the run, in order
    projections,      \* history: the message lists returned by the projections since the last step
    \* SnowflakeClient
    _instance,          \* SnowflakeClient._instance: None, or the attributes set on the one instance
    _jwt_token,         \* self._jwt_token: None, or the cached token with its iat and exp
    _jwt_token_expiry,  \* self._jwt_token_expiry: None, or the time until which the cache is used
    now,                \* the clock, in seconds
    constructions,      \* history: the number of SnowflakeClient() calls made
    initialize_runs,    \* history: the number of _initialize runs that completed
    construction,       \* history: how the last SnowflakeClient() call ended
    token_call,         \* history: how the get_jwt_token call made at this time ended
    \* JudgeAgent
    validation_strategies,  \* self.validation_strategies: the class names of the strategies
    judge_pc,           \* where run() is: idle, validating, returned, raised
    position,           \* the index of the strategy the loop of run() is at
    results,            \* the results dict of run(): class name -> valid, message
    invoked,            \* history: the strategies run() has invoked, in order
    runs,               \* history: the number of run() calls made
    queries,            \* history: how the execute_query calls of this run() ended, in order
    run_raised          \* the exception that left run(), if one did

vars == <<tools, tool_inputs, managed_agents, state, max_steps, memory, step_number,
          input_messages, pc, pending, result, request_tools, raised, outcome,
          trace, projections>>

----------------------------------------------------------------------------
(* Bounds *)

client_vars == <<_instance, _jwt_token, _jwt_token_expiry, now, constructions,
                 initialize_runs, construction, token_call>>
judge_vars == <<validation_strategies, judge_pc, position, results, invoked, runs,
                queries, run_raised>>
all_vars == <<vars, client_vars, judge_vars>>

MaxStepsBound == 2

----------------------------------------------------------------------------
(* Python values *)

None == <<>>
Some(x) == <<x>>

Str(s) == [t |-> "str", v |-> s]
List(s) == [t |-> "list", v |-> s]        \* a JSON list holding the string s
Frame(s) == [t |-> "DataFrame", v |-> s]  \* an object json.dumps cannot serialise

EmptyItems == [k \in {} |-> Str("")]

PyNone == [t |-> "NoneType", v |-> "", d |-> EmptyItems]
PyDict(items) == [t |-> "dict", v |-> "", d |-> items]
PyInt(digits) == [t |-> "int", v |-> digits, d |-> EmptyItems]
\* a leaf value (a dict item, a stored value) as a value of its own
Lift(leaf) == [t |-> leaf.t, v |-> leaf.v, d |-> EmptyItems]
PyStr(s) == Lift(Str(s))

isinstance(x, type) == x.t = type

\* json.dumps of a leaf: the tokens of its text; a DataFrame has none (TypeError)
leaf_serialisable(leaf) == leaf.t \in {"str", "list", "int", "NoneType"}
leaf_dumps(leaf) ==
    CASE leaf.t = "str" -> <<"\"", leaf.v, "\"">>
      [] leaf.t = "list" -> <<"[", "\"", leaf.v, "\"", "]">>
      [] leaf.t = "NoneType" -> <<"null">>
      [] OTHER -> <<leaf.v>>

\* The argument names, in the order json.dumps writes them.
ArgNameOrder == <<"answer", "data", "q", "opts">>

RECURSIVE items_dumps(_, _)
items_dumps(items, i) ==
    IF i > Len(ArgNameOrder) THEN <<>>
    ELSE (IF ArgNameOrder[i] \in DOMAIN items
          THEN <<"\"", ArgNameOrder[i], "\"", ":">> \o leaf_dumps(items[ArgNameOrder[i]])
          ELSE <<>>) \o items_dumps(items, i + 1)

json_serialisable(x) ==
    IF isinstance(x, "dict")
    THEN \A k \in DOMAIN x.d : leaf_serialisable(x.d[k])
    ELSE leaf_serialisable(x)

json_dumps(x) ==
    IF isinstance(x, "dict")
    THEN <<"{">> \o items_dumps(x.d, 1) \o <<"}">>
    ELSE leaf_dumps(x)

----------------------------------------------------------------------------
(* Exceptions *)

NoArgs == <<>>

\* An exception: its class, the template of its message and the message's parts.
Exception(class, template, tool_name, listed, arguments, cause, schema) ==
    [class |-> class, template |-> template, tool_name |-> tool_name,
     listed |-> listed, arguments |-> arguments, cause |-> cause, schema |-> schema]

----------------------------------------------------------------------------
(* The Model Gateway: SnowflakeApiModel *)

\* An item of the provider's content_list.
text_item(text) ==
    [type |-> "text", tool_use_id |-> "", name |-> "", input |-> PyNone,
     text |-> text, error |-> None]
tool_use_item(name, input, id) ==
    [type |-> "tool_use", tool_use_id |-> id, name |-> name, input |-> input,
     text |-> "", error |-> None]

\* What call_cortex_llm gives: a payload, or an exception.
Payload(content, content_list) ==
    [status |-> "ok", content |-> content, content_list |-> content_list]
Failure(cause) == [status |-> cause, content |-> "", content_list |-> <<>>]
GatewayFailures == {"ConnectionError", "HTTPError", "KeyError", "ValueError"}

is_tool_use(item) == item.type = "tool_use"

ChatMessageToolCall(item) ==
    [name |-> item.name, arguments |-> item.input, id |-> item.tool_use_id]

RECURSIVE tool_calls_of(_)
tool_calls_of(items) ==
    IF items = <<>> THEN <<>>
    ELSE <<ChatMessageToolCall(Head(items))>> \o tool_calls_of(Tail(items))

\* None is the empty sequence: step() treats None and an empty list alike.
_extract_tool_use(response) ==
    IF response.content_list = <<>> THEN None
    ELSE tool_calls_of(SelectSeq(response.content_list, is_tool_use))

_extract_answer_text(response) == response.content

\* SnowflakeApiModel.__call__ on a payload
ChatMessage(response) ==
    [role |-> "assistant",
     content |-> _extract_answer_text(response),
     tool_calls |-> _extract_tool_use(response),
     raw |-> response]

\* A property of tool.inputs: its declared type, its description if it has
\* one, and its "nullable" key if it has one.
Property(type, description, nullable) ==
    [type |-> type, description |-> description, nullable |-> nullable]

DefaultDescription == "The final answer to the problem"

\* _parse_tools_to_call_from, lines 80-82: 'answer' misses from final_answer
final_answer_without_answer(tool) ==
    tool.name = "final_answer" /\ "answer" \notin DOMAIN tool.inputs

\* A translation that sends every property as the tool declares it.
tool_spec_of_as_declared(tool) ==
    [type |-> "generic",
     name |-> tool.name,
     input_schema |->
         [type |-> "object",
          properties |-> tool.inputs,
          required |-> DOMAIN tool.inputs]]

\* _parse_tools_to_call_from, lines 79-107: the ToolSpec of one tool; the
\* 'answer' property of final_answer becomes a description and the type
\* "string", nothing else of it is kept
tool_spec_of(tool) ==
    [type |-> "generic",
     name |-> tool.name,
     input_schema |->
         [type |-> "object",
          properties |->
              IF tool.name = "final_answer"
              THEN [key \in DOMAIN tool.inputs |->
                      IF key = "answer"
                      THEN Property("string",
                                    IF tool.inputs[key].description # None
                                    THEN tool.inputs[key].description
                                    ELSE Some(DefaultDescription),
                                    None)
                      ELSE tool.inputs[key]]
              ELSE tool.inputs,
          required |-> DOMAIN tool.inputs]]

\* _parse_tools_to_call_from: the list of tool_spec entries, or the
\* ValueError "Failed to parse tool" (lines 108-109)
_parse_tools_to_call_from(tool_list) ==
    IF \E k \in DOMAIN tool_list : final_answer_without_answer(tool_list[k])
    THEN [ok |-> FALSE, tools |-> <<>>]
    ELSE [ok |-> TRUE,
          tools |-> [k \in DOMAIN tool_list |-> [tool_spec |-> tool_spec_of(tool_list[k])]]]

\* __call__, line 57: data["tools"], when the request is built
request_tools_of(tool_list) ==
    IF tool_list = <<>> THEN Some(<<>>)
    ELSE IF _parse_tools_to_call_from(tool_list).ok
    THEN Some(_parse_tools_to_call_from(tool_list).tools)
    ELSE None

----------------------------------------------------------------------------
(* The Memory Log and its projection to messages *)

SystemPrompt == "system prompt"
Task == "task"

Content(tag, text, call_id, error) ==
    [tag |-> tag, text |-> text, call_id |-> call_id, error |-> error]

Message(role, content, content_list) ==
    [role |-> role, content |-> content, content_list |-> content_list]

TaskStep(task) ==
    [type |-> "TaskStep", task |-> task, step_number |-> 0,
     model_input_messages |-> None, model_output_message |-> None,
     model_output |-> None, tool_calls |-> None, observations |-> None,
     error |-> None, action_output |-> None]

\* _create_action_step: every field but the step number is None
TaskActionStep(n) ==
    [type |-> "ActionStep", task |-> "", step_number |-> n,
     model_input_messages |-> None, model_output_message |-> None,
     model_output |-> None, tool_calls |-> None, observations |-> None,
     error |-> None, action_output |-> None]

ToolCall(name, arguments, id) == [name |-> name, arguments |-> arguments, id |-> id]

\* A tool_results entry that names the tool but not the call it answers.
tool_results_item_without_id(tool_use_id, name, text, error) ==
    [type |-> "tool_results", tool_use_id |-> "", name |-> name,
     input |-> PyNone, text |-> text, error |-> error]

tool_results_item(tool_use_id, name, text, error) ==
    [type |-> "tool_results", tool_use_id |-> tool_use_id, name |-> name,
     input |-> PyNone, text |-> text, error |-> error]

system_prompt_to_messages(system_prompt) ==
    <<Message("system", Content("system_prompt", system_prompt, "", None), <<>>)>>

Last(seq) == seq[Len(seq)]

\* A projection of an ActionStep that puts the observation before the
\* assistant's output.
action_step_to_messages_observation_first(memory_step) ==
    (IF memory_step.observations # None
     THEN <<Message("user",
                    Last(memory_step.model_input_messages[1]).content,
                    memory_step.observations[1])>>
     ELSE <<>>)
    \o
    (IF memory_step.model_output # None
     THEN <<Message("assistant",
                    Content("model_output_message",
                            memory_step.model_output_message[1], "", None),
                    memory_step.model_output[1])>>
     ELSE <<>>)
    \o
    (IF memory_step.error # None
     THEN <<Message("user",
                    Content("error", "Now let's retry",
                            IF memory_step.tool_calls # None
                            THEN memory_step.tool_calls[1][1].id ELSE "",
                            memory_step.error),
                    IF memory_step.tool_calls # None
                    THEN <<tool_results_item(memory_step.tool_calls[1][1].id,
                                             memory_step.tool_calls[1][1].name,
                                             "Error:", memory_step.error)>>
                    ELSE <<>>)>>
     ELSE <<>>)

action_step_to_messages(memory_step) ==
    (IF memory_step.model_output # None
     THEN <<Message("assistant",
                    Content("model_output_message",
                            memory_step.model_output_message[1], "", None),
                    memory_step.model_output[1])>>
     ELSE <<>>)
    \o
    (IF memory_step.observations # None
     THEN <<Message("user",
                    Last(memory_step.model_input_messages[1]).content,
                    memory_step.observations[1])>>
     ELSE <<>>)
    \o
    (IF memory_step.error # None
     THEN <<Message("user",
                    Content("error", "Now let's retry",
                            IF memory_step.tool_calls # None
                            THEN memory_step.tool_calls[1][1].id ELSE "",
                            memory_step.error),
                    IF memory_step.tool_calls # None
                    THEN <<tool_results_item(memory_step.tool_calls[1][1].id,
                                             memory_step.tool_calls[1][1].name,
                                             "Error:", memory_step.error)>>
                    ELSE <<>>)>>
     ELSE <<>>)

RECURSIVE steps_to_messages(_)
steps_to_messages(steps) ==
    IF steps = <<>> THEN <<>>
    ELSE (IF Head(steps).type = "ActionStep"
          THEN action_step_to_messages(Head(steps))
          ELSE <<Message("user", Content("New task:", Head(steps).task, "", None), <<>>)>>)
         \o steps_to_messages(Tail(steps))

\* A projection that keeps a running buffer: it adds the steps to the
\* messages of the projection before it.
write_memory_to_messages_buffered(steps) ==
    (IF projections = <<>> THEN system_prompt_to_messages(SystemPrompt)
     ELSE projections[Len(projections)])
    \o steps_to_messages(steps)

write_memory_to_messages(steps) ==
    system_prompt_to_messages(SystemPrompt) \o steps_to_messages(steps)

----------------------------------------------------------------------------
(* What the model may answer, and what a tool may do *)

Key == "result_1"        \* a State Store key
Literal == "result_10"   \* a string that holds the key but is no key

Items1(n1, v1) == [k \in {n1} |-> v1]
Items3(n1, v1, n2, v2, n3, v3) ==
    [k \in {n1, n2, n3} |-> IF k = n1 THEN v1 ELSE IF k = n2 THEN v2 ELSE v3]

\* a key, a string that is no key, and a list that holds the key
MixedArguments == PyDict(Items3("data", Str(Key), "q", Str(Literal), "opts", List(Key)))

ToolArguments == { MixedArguments, PyStr(Key), PyNone }

FinalArguments ==
    { PyDict(Items1("answer", Str(Key))),
      PyDict(Items1("answer", Str(Literal))),
      PyDict(Items1("answer", List(Key))),
      PyDict(Items1("data", Str(Key))),
      PyStr(Key),
      PyStr(Literal),
      PyNone }

FirstCalls ==
    { tool_use_item("bar", a, "id1") : a \in ToolArguments \cup {PyInt("7")} }
    \cup { tool_use_item("team", MixedArguments, "id1"),
           tool_use_item("foo", MixedArguments, "id1") }
    \cup { tool_use_item("final_answer", a, "id1") : a \in FinalArguments }

ContentLists ==
    { <<>>, <<text_item("thinking")>> }
    \cup { <<c>> : c \in FirstCalls }
    \cup { <<text_item("thinking"), tool_use_item("bar", PyStr(Literal), "id1"),
             text_item("done")>>,
           <<tool_use_item("bar", PyDict(Items1("data", Str(Key))), "id1"),
             tool_use_item("final_answer", PyDict(Items1("answer", Str(Literal))), "id2")>>,
           <<tool_use_item("final_answer", PyStr(Key), "id1"),
             tool_use_item("bar", PyStr(Literal), "id2")>> }

Responses ==
    { Failure(cause) : cause \in GatewayFailures }
    \cup { Payload("text", content_list) : content_list \in ContentLists }

\* A tool or managed agent returns, raises a TypeError (an argument
\* mismatch) or raises something else.
ToolOutcomes == {"returns", "TypeError", "ValueError"}
ToolResult == "tool result"
ExcText == "str(e)"

\* The registries the agent is built with: self.tools, self.managed_agents.
BarInputs ==
    Items3("data", Property("object", Some("the rows"), None),
           "q", Property("string", Some("the question"), None),
           "opts", Property("array", None, Some("true")))
NoInputs == [k \in {} |-> Property("", None, None)]

\* The inputs a final_answer tool declares: the answer of any type; an
\* answer that is an object, without description, and a second property;
\* no answer at all.
AnswerAny == Items1("answer", Property("any", Some(DefaultDescription), None))
AnswerObject ==
    [k \in {"answer", "note"} |->
        IF k = "answer" THEN Property("object", None, Some("true"))
        ELSE Property("integer", Some("a note"), None)]
AnswerMissing == Items1("result", Property("any", Some("the result"), None))

\* The registries the agent is built with: self.tools, the inputs its tools
\* declare, self.managed_agents.
Registries ==
    { [tools |-> <<"final_answer", "bar">>,
       inputs |-> [n \in {"final_answer", "bar"} |->
                      IF n = "final_answer" THEN AnswerAny ELSE BarInputs],
       managed_agents |-> <<>>],
      [tools |-> <<"final_answer", "bar", "baz">>,
       inputs |-> [n \in {"final_answer", "bar", "baz"} |->
                      IF n = "final_answer" THEN AnswerObject
                      ELSE IF n = "bar" THEN BarInputs ELSE NoInputs],
       managed_agents |-> <<"team">>],
      [tools |-> <<"bar", "final_answer">>,
       inputs |-> [n \in {"final_answer", "bar"} |->
                      IF n = "final_answer" THEN AnswerMissing ELSE BarInputs],
       managed_agents |-> <<>>] }

StateStores ==
    { [k \in {} |-> Str("")],
      [k \in {Key} |-> List("rows")],
      [k \in {Key} |-> Frame("df1")] }

----------------------------------------------------------------------------
(* One step: ToolCallingSnowflakeAgent.step and execute_tool_call *)

Range(seq) == { seq[i] : i \in DOMAIN seq }

Returned(value) == [kind |-> "return", value |-> value, exc |-> None]
Raised(e) == [kind |-> "raise", value |-> PyNone, exc |-> Some(e)]
NoResult == [kind |-> "none", value |-> PyNone, exc |-> None]

NoPending ==
    [tool_name |-> "", arguments |-> PyNone, tool_id |-> "", is_managed_agent |-> FALSE]

ModelEvent(n) ==
    [ev |-> "model", step |-> n, name |-> "", arguments |-> PyNone, id |-> ""]
ToolEvent(n, name, arguments, id) ==
    [ev |-> "tool", step |-> n, name |-> name, arguments |-> arguments, id |-> id]

\* The current ActionStep is the last step of the Memory Log.
memory_step == memory[Len(memory)]
SetStep(new_step) == [memory EXCEPT ![Len(memory)] = new_step]

\* A lookup that forgets the managed agents.
available_tools_only(tool_names, agent_names) == tool_names

\* {**self.tools, **self.managed_agents}, in dict order
NotIn(seq, n) == n \notin Range(seq)
available_tools(tool_names, agent_names) ==
    tool_names \o SelectSeq(agent_names, LAMBDA n : NotIn(tool_names, n))

\* A substitution that leaves every argument as the model wrote it.
_substitute_nothing(arguments, store) == arguments

\* A substitution that also looks up the string held by a list value.
_substitute_nested(arguments, store) ==
    IF isinstance(arguments, "dict")
    THEN PyDict([key \in DOMAIN arguments.d |->
                   IF arguments.d[key].t \in {"str", "list"}
                      /\ arguments.d[key].v \in DOMAIN store
                   THEN store[arguments.d[key].v]
                   ELSE arguments.d[key]])
    ELSE arguments

\* A substitution that also looks a bare string argument up in the State Store.
_substitute_whole_string(arguments, store) ==
    IF isinstance(arguments, "dict")
    THEN PyDict([key \in DOMAIN arguments.d |->
                   IF isinstance(arguments.d[key], "str")
                      /\ arguments.d[key].v \in DOMAIN store
                   THEN store[arguments.d[key].v]
                   ELSE arguments.d[key]])
    ELSE IF isinstance(arguments, "str") /\ arguments.v \in DOMAIN store
    THEN Lift(store[arguments.v])
    ELSE arguments

state_get(store, key, default) == IF key \in DOMAIN store THEN store[key] ELSE default

_substitute_state_variables(arguments, store) ==
    IF isinstance(arguments, "dict")
    THEN PyDict([key \in DOMAIN arguments.d |->
                   IF isinstance(arguments.d[key], "str")
                   THEN state_get(store, arguments.d[key].v, arguments.d[key])
                   ELSE arguments.d[key]])
    ELSE arguments

\* A step that acts on the last tool call of the response.
selected_tool_call_last(tool_calls) == tool_calls[Len(tool_calls)]

\* step(), line 207: the tool call that is acted upon
selected_tool_call(tool_calls) == tool_calls[1]

\* step(), lines 219-225
answer_of(tool_arguments) ==
    IF isinstance(tool_arguments, "dict")
    THEN IF "answer" \in DOMAIN tool_arguments.d
         THEN Lift(tool_arguments.d["answer"])
         ELSE tool_arguments
    ELSE tool_arguments

\* A final answer that is never looked up in the State Store.
final_answer_literal(answer, store) == answer

\* step(), lines 226-239
final_answer_of(answer, store) ==
    IF isinstance(answer, "str") /\ answer.v \in DOMAIN store
    THEN Lift(store[answer.v])
    ELSE answer

\* json.dumps(arguments) inside an except clause raises a TypeError of its
\* own when a value cannot be serialised; that one leaves execute_tool_call.
NotSerializable ==
    Exception("TypeError", "Object is not JSON serializable", "", <<>>, NoArgs, "", FALSE)

\* execute_tool_call, lines 322-339
on_TypeError(tool_name, arguments, is_managed_agent) ==
    IF ~json_serialisable(arguments) THEN NotSerializable
    ELSE IF is_managed_agent
    THEN Exception("AgentToolCallError", "Invalid request to team member",
                   tool_name, <<>>, json_dumps(arguments), ExcText, FALSE)
    ELSE Exception("AgentToolCallError", "Invalid call to tool",
                   tool_name, <<>>, json_dumps(arguments), ExcText, TRUE)

\* execute_tool_call, lines 341-353
on_Exception(tool_name, arguments, is_managed_agent, e) ==
    IF ~json_serialisable(arguments) THEN NotSerializable
    ELSE IF is_managed_agent
    THEN Exception("AgentToolExecutionError", "Error executing request to team member",
                   tool_name, <<>>, json_dumps(arguments), ExcText, FALSE)
    ELSE Exception("AgentToolExecutionError", "Error executing tool",
                   tool_name, <<>>, json_dumps(arguments), e \o ": " \o ExcText, FALSE)

\* execute_tool_call, lines 286-290
unknown_tool(tool_name) ==
    Exception("AgentToolExecutionError", "Unknown tool", tool_name,
              available_tools(tools, managed_agents), NoArgs, "", FALSE)

----------------------------------------------------------------------------
(* SnowflakeClient: the singleton, its JWT and execute_query *)

Tick == 30                 \* the clock is read every 30 seconds
MaxTime == 3600            \* the clock stops here
MaxConstructions == 2      \* SnowflakeClient() is called this often at most

LifetimeMinutes == 59      \* _generate_jwt_token: timedelta(minutes=59)
SecondsPerMinute == 60
CacheSeconds == 3600       \* get_jwt_token: int(time.time()) + 3600

\* The attributes _initialize has set on the instance.
Attributes(config, private_key, conn, token_fields) ==
    [config |-> config, private_key |-> private_key, conn |-> conn,
     token_fields |-> token_fields]

\* Where _initialize can raise: load_config (line 30), open (line 33),
\* load_pem_private_key (line 37), connect (line 44).
InitializeFailures == {"load_config", "open", "load_pem_private_key", "connect"}

\* _initialize, lines 27-55: the attributes set when it returns ("none") or
\* when it raises at the given place
_initialize(failure) ==
    CASE failure = "load_config" -> Attributes(FALSE, FALSE, FALSE, FALSE)
      [] failure \in {"open", "load_pem_private_key"} -> Attributes(TRUE, FALSE, FALSE, FALSE)
      [] failure = "connect" -> Attributes(TRUE, TRUE, FALSE, FALSE)
      [] OTHER -> Attributes(TRUE, TRUE, TRUE, TRUE)

NoConstruction == [kind |-> "none", cause |-> ""]
NoTokenCall == [kind |-> "none", iat |-> 0, exp |-> 0, at |-> 0]

\* _generate_jwt_token, lines 77-85: iat is the time of the call, exp is 59
\* minutes later
_generate_jwt_token(time) ==
    [iat |-> time, exp |-> time + LifetimeMinutes * SecondsPerMinute]

ClientIdle ==
    /\ _instance = None
    /\ _jwt_token = None
    /\ _jwt_token_expiry = None
    /\ now = 0
    /\ constructions = 0
    /\ initialize_runs = 0
    /\ construction = NoConstruction
    /\ token_call = NoTokenCall

\* __new__, lines 21-25: the instance is kept in cls._instance before
\* _initialize runs on it
Construct ==
    /\ constructions < MaxConstructions
    /\ constructions' = constructions + 1
    /\ IF _instance = None
       THEN \E failure \in InitializeFailures \cup {"none"} :
               /\ _instance' = Some(_initialize(failure))
               /\ initialize_runs' = IF failure = "none" THEN initialize_runs + 1
                                     ELSE initialize_runs
               /\ construction' = IF failure = "none"
                                  THEN [kind |-> "returned", cause |-> ""]
                                  ELSE [kind |-> "raised", cause |-> failure]
       ELSE /\ construction' = [kind |-> "returned", cause |-> ""]
            /\ UNCHANGED <<_instance, initialize_runs>>
    /\ UNCHANGED <<_jwt_token, _jwt_token_expiry, now, token_call>>
    /\ UNCHANGED <<vars, judge_vars>>

\* get_jwt_token, lines 98-105, on the instance the last construction returned
GetToken ==
    /\ construction.kind = "returned"
    /\ token_call = NoTokenCall
    /\ IF ~_instance[1].token_fields
       THEN /\ token_call' = [kind |-> "AttributeError", iat |-> 0, exp |-> 0, at |-> now]
            /\ UNCHANGED <<_jwt_token, _jwt_token_expiry>>
       ELSE IF _jwt_token # None /\ now < _jwt_token_expiry[1]
       THEN /\ token_call' = [kind |-> "returned", iat |-> _jwt_token[1].iat,
                              exp |-> _jwt_token[1].exp, at |-> now]
            /\ UNCHANGED <<_jwt_token, _jwt_token_expiry>>
       ELSE /\ _jwt_token' = Some(_generate_jwt_token(now))
            /\ _jwt_token_expiry' = Some(now + CacheSeconds)
            /\ token_call' = [kind |-> "returned", iat |-> now,
                              exp |-> _generate_jwt_token(now).exp, at |-> now]
    /\ UNCHANGED <<_instance, now, constructions, initialize_runs, construction>>
    /\ UNCHANGED <<vars, judge_vars>>

\* Time passes.
ClockAdvances ==
    /\ now + Tick <= MaxTime
    /\ now' = now + Tick
    /\ token_call' = NoTokenCall
    /\ UNCHANGED <<_instance, _jwt_token, _jwt_token_expiry, constructions,
                   initialize_runs, construction>>
    /\ UNCHANGED <<vars, judge_vars>>

\* Where execute_query can fail: conn.cursor() (line 110), the USE
\* WAREHOUSE statement (line 111), the query (line 112), fetchall (line 113).
FailurePoints == {"cursor", "use_warehouse", "execute", "fetchall"}
WarehouseError == "ProgrammingError"

\* execute_query, lines 107-120, when the warehouse fails at failure_point
\* ("none": it does not fail): what leaves the method, and the cursors
\* opened and closed.  The finally clause closes the local name cursor,
\* which is unbound when conn.cursor() itself raised.
execute_query(failure_point) ==
    [kind |-> IF failure_point = "none" THEN "return" ELSE "raise",
     exc |-> IF failure_point = "none" THEN ""
             ELSE IF failure_point = "cursor" THEN "UnboundLocalError"
             ELSE WarehouseError,
     failure_point |-> failure_point,
     opened |-> IF failure_point = "cursor" THEN 0 ELSE 1,
     closed |-> IF failure_point = "cursor" THEN 0 ELSE 1]

----------------------------------------------------------------------------
(* JudgeAgent *)

MaxRuns == 2    \* run() is called this often at most

DefaultStrategies == <<"SyntaxValidation", "ExecutionValidation", "SemanticValidation">>

\* The lists a JudgeAgent is built with; CustomValidation is a strategy of
\* the caller's, which may find the query valid or not.
StrategyLists ==
    { <<>>,
      <<"CustomValidation", "ExecutionValidation">>,
      <<"SyntaxValidation", "CustomValidation", "SemanticValidation">>,
      <<"ExecutionValidation", "CustomValidation", "CustomValidation">>,
      <<"SemanticValidation", "SyntaxValidation">>,
      <<"CustomValidation">> }

\* __init__, lines 11-15: validation_strategies or the default list
strategies_or_default(strategies) ==
    IF strategies = <<>> THEN DefaultStrategies ELSE strategies

Verdict(valid, message) == [valid |-> valid, message |-> message]
NoResults == [c \in {} |-> Verdict(TRUE, "")]

\* strategy.validate of the strategies of validation.py
SyntaxValidation_validate == Verdict(TRUE, "Syntax validation passed")
SemanticValidation_validate == Verdict(TRUE, "Semantic validation passed")
ExecutionValidation_validate(query) ==
    IF query.kind = "return" THEN Verdict(TRUE, "Query executed successfully")
    ELSE Verdict(FALSE, "Execution failed: " \o query.exc)
CustomValidation_validate(valid) ==
    Verdict(valid, IF valid THEN "passed" ELSE "failed")

JudgeIdle ==
    /\ validation_strategies = DefaultStrategies
    /\ judge_pc = "idle"
    /\ position = 0
    /\ results = NoResults
    /\ invoked = <<>>
    /\ runs = 0
    /\ queries = <<>>
    /\ run_raised = None

\* run(), lines 22-24: the query is executed before any strategy is asked
JudgeRun ==
    /\ judge_pc \in {"idle", "returned", "raised"}
    /\ runs < MaxRuns
    /\ runs' = runs + 1
    /\ \E failure_point \in FailurePoints \cup {"none"} :
          LET query_result == execute_query(failure_point)
          IN /\ queries' = <<query_result>>
             /\ IF query_result.kind = "raise"
                THEN /\ judge_pc' = "raised"
                     /\ run_raised' = Some(query_result.exc)
                ELSE /\ judge_pc' = "validating"
                     /\ run_raised' = None
    /\ position' = 1
    /\ results' = NoResults
    /\ invoked' = <<>>
    /\ UNCHANGED validation_strategies
    /\ UNCHANGED <<vars, client_vars>>

\* A loop that goes on after a strategy has found the query invalid.
Validate_All ==
    /\ judge_pc = "validating"
    /\ position <= Len(validation_strategies)
    /\ LET strategy == validation_strategies[position]
       IN \E failure_point \in FailurePoints \cup {"none"}, valid \in BOOLEAN :
             /\ strategy = "ExecutionValidation" \/ failure_point = "none"
             /\ strategy = "CustomValidation" \/ valid
             /\ LET verdict ==
                        CASE strategy = "SyntaxValidation" -> SyntaxValidation_validate
                          [] strategy = "SemanticValidation" -> SemanticValidation_validate
                          [] strategy = "ExecutionValidation" ->
                               ExecutionValidation_validate(execute_query(failure_point))
                          [] OTHER -> CustomValidation_validate(valid)
                IN /\ results' = [c \in DOMAIN results \cup {strategy} |->
                                     IF c = strategy THEN verdict ELSE results[c]]
                   /\ queries' = IF strategy = "ExecutionValidation"
                                 THEN Append(queries, execute_query(failure_point))
                                 ELSE queries
                   /\ invoked' = Append(invoked, strategy)
                   /\ position' = position + 1
                   /\ UNCHANGED judge_pc
    /\ UNCHANGED <<validation_strategies, runs, run_raised>>
    /\ UNCHANGED <<vars, client_vars>>

\* run(), lines 25-30: the next strategy is asked, its verdict is kept under
\* its class name, and an invalid verdict ends run()
Validate ==
    /\ judge_pc = "validating"
    /\ position <= Len(validation_strategies)
    /\ LET strategy == validation_strategies[position]
       IN \E failure_point \in FailurePoints \cup {"none"}, valid \in BOOLEAN :
             /\ strategy = "ExecutionValidation" \/ failure_point = "none"
             /\ strategy = "CustomValidation" \/ valid
             /\ LET verdict ==
                        CASE strategy = "SyntaxValidation" -> SyntaxValidation_validate
                          [] strategy = "SemanticValidation" -> SemanticValidation_validate
                          [] strategy = "ExecutionValidation" ->
                               ExecutionValidation_validate(execute_query(failure_point))
                          [] OTHER -> CustomValidation_validate(valid)
                IN /\ results' = [c \in DOMAIN results \cup {strategy} |->
                                     IF c = strategy THEN verdict ELSE results[c]]
                   /\ queries' = IF strategy = "ExecutionValidation"
                                 THEN Append(queries, execute_query(failure_point))
                                 ELSE queries
                   /\ invoked' = Append(invoked, strategy)
                   /\ IF verdict.valid
                      THEN /\ position' = position + 1
                           /\ UNCHANGED judge_pc
                      ELSE /\ judge_pc' = "returned"
                           /\ UNCHANGED position
    /\ UNCHANGED <<validation_strategies, runs, run_raised>>
    /\ UNCHANGED <<vars, client_vars>>

\* run(), lines 31-32: every strategy found the query valid
AllPassed ==
    /\ judge_pc = "validating"
    /\ position > Len(validation_strategies)
    /\ judge_pc' = "returned"
    /\ UNCHANGED <<validation_strategies, position, results, invoked, runs,
                   queries, run_raised>>
    /\ UNCHANGED <<vars, client_vars>>

----------------------------------------------------------------------------
(* The state machine *)

NoOutcome == [kind |-> "running", value |-> PyNone, exc |-> None]

Init ==
    /\ \E registry \in Registries :
          /\ tools = registry.tools
          /\ tool_inputs = registry.inputs
          /\ managed_agents = registry.managed_agents
    /\ state \in StateStores
    /\ max_steps \in 1..MaxStepsBound
    /\ memory = <<TaskStep(Task)>>
    /\ step_number = 1
    /\ input_messages = <<>>
    /\ pc = "running"
    /\ pending = NoPending
    /\ result = NoResult
    /\ request_tools = None
    /\ raised = None
    /\ outcome = NoOutcome
    /\ trace = <<>>
    /\ projections = <<>>
    /\ ClientIdle
    /\ JudgeIdle

\* step(), line 189: list(self.tools.values())
tools_to_call_from == [k \in DOMAIN tools |-> [name |-> tools[k], inputs |-> tool_inputs[tools[k]]]]

\* What the model call of step() can come back with: whatever the provider
\* answers, or the ValueError of the schema translation, which is raised
\* before any request is sent.
gateway_responses ==
    IF request_tools = None THEN {Failure("ValueError")} ELSE Responses

\* A budget that allows one step too many.
budget_left_one_more == step_number <= max_steps + 1

\* The loop starts another step while the step budget lasts.
budget_left == step_number <= max_steps

\* A step that starts from a Memory Log reset to the task.
StepStart_Reset ==
    /\ pc = "running"
    /\ budget_left
    /\ LET memory_messages ==
               write_memory_to_messages(Append(memory, TaskActionStep(step_number)))
       IN /\ input_messages' = memory_messages
          /\ memory' = <<memory[1],
                 [TaskActionStep(step_number) EXCEPT
                     !.model_input_messages = Some(memory_messages)]>>
    /\ trace' = Append(trace, ModelEvent(step_number))
    /\ request_tools' = request_tools_of(tools_to_call_from)
    /\ projections' = <<>>
    /\ pc' = "awaiting_model"
    /\ UNCHANGED <<client_vars, judge_vars, tools, tool_inputs, managed_agents, state, max_steps, step_number,
                   pending, result, raised, outcome>>

\* A step that does not keep the messages it sends.
StepStart_InputNotKept ==
    /\ pc = "running"
    /\ budget_left
    /\ input_messages' =
           write_memory_to_messages(Append(memory, TaskActionStep(step_number)))
    /\ memory' = Append(memory, TaskActionStep(step_number))
    /\ trace' = Append(trace, ModelEvent(step_number))
    /\ request_tools' = request_tools_of(tools_to_call_from)
    /\ projections' = <<>>
    /\ pc' = "awaiting_model"
    /\ UNCHANGED <<client_vars, judge_vars, tools, tool_inputs, managed_agents, state, max_steps, step_number,
                   pending, result, raised, outcome>>

\* A step that sends the messages of the Memory Log as it was one step ago.
StepStart_Stale ==
    /\ pc = "running"
    /\ budget_left
    /\ LET memory_messages ==
               write_memory_to_messages(SubSeq(memory, 1, Len(memory) - 1))
       IN /\ input_messages' = memory_messages
          /\ memory' = Append(memory,
                 [TaskActionStep(step_number) EXCEPT
                     !.model_input_messages = Some(memory_messages)])
    /\ trace' = Append(trace, ModelEvent(step_number))
    /\ request_tools' = request_tools_of(tools_to_call_from)
    /\ projections' = <<>>
    /\ pc' = "awaiting_model"
    /\ UNCHANGED <<client_vars, judge_vars, tools, tool_inputs, managed_agents, state, max_steps, step_number,
                   pending, result, raised, outcome>>

\* The loop creates the ActionStep; step() lines 179-191 project the memory,
\* keep the messages and call the model.
StepStart ==
    /\ pc = "running"
    /\ budget_left
    /\ LET memory_messages ==
               write_memory_to_messages(Append(memory, TaskActionStep(step_number)))
       IN /\ input_messages' = memory_messages
          /\ memory' = Append(memory,
                 [TaskActionStep(step_number) EXCEPT
                     !.model_input_messages = Some(memory_messages)])
    /\ trace' = Append(trace, ModelEvent(step_number))
    /\ request_tools' = request_tools_of(tools_to_call_from)
    /\ projections' = <<>>
    /\ pc' = "awaiting_model"
    /\ UNCHANGED <<client_vars, judge_vars, tools, tool_inputs, managed_agents, state, max_steps, step_number,
                   pending, result, raised, outcome>>

\* A step that calls the gateway again when it raised.
GatewayRaises_Retry(response) ==
    /\ response.status # "ok"
    /\ Len(trace) < 2 * max_steps + 1
    /\ trace' = Append(trace,
           [ev |-> "model", step |-> step_number, name |-> "",
            arguments |-> PyNone, id |-> ""])
    /\ UNCHANGED <<memory, pending, result, raised, pc>>

\* step() lines 192-194: the gateway raised, for whatever cause
GatewayRaises(response) ==
    /\ response.status # "ok"
    /\ result' = Raised(Exception("AgentParsingError",
                     "Error while generating or parsing output", "", <<>>,
                     NoArgs, response.status, FALSE))
    /\ pc' = "step_done"
    /\ UNCHANGED <<memory, pending, raised, trace>>

\* A step that returns None when the response carries no tool call.
NoToolCalls_Silent(response) ==
    /\ response.status = "ok"
    /\ Len(ChatMessage(response).tool_calls) = 0
    /\ memory' = [memory EXCEPT ![Len(memory)].model_output_message =
                     <<ChatMessage(response).content>>]
    /\ result' = [kind |-> "return", value |-> PyNone, exc |-> <<>>]
    /\ pc' = "step_done"
    /\ UNCHANGED <<pending, raised, trace>>

\* step() lines 202-205: the response carries no tool call
NoToolCalls(response) ==
    /\ response.status = "ok"
    /\ Len(ChatMessage(response).tool_calls) = 0
    /\ memory' = SetStep([memory_step EXCEPT
                     !.model_output_message = Some(ChatMessage(response).content)])
    /\ result' = Raised(Exception("AgentParsingError",
                     "Model did not call any tools", "", <<>>, NoArgs, "", FALSE))
    /\ pc' = "step_done"
    /\ UNCHANGED <<pending, raised, trace>>

\* A step that records the arguments after the State Store values are put in.
recorded_step_substituted(response) ==
    LET model_message == ChatMessage(response)
        tool_call == selected_tool_call(model_message.tool_calls)
    IN [memory_step EXCEPT
          !.model_output_message = Some(model_message.content),
          !.model_output = Some(SelectSeq(model_message.raw.content_list, is_tool_use)),
          !.tool_calls = Some(<<ToolCall(tool_call.name,
                                   _substitute_state_variables(tool_call.arguments, state),
                                   tool_call.id)>>)]

\* step() lines 207-211: the ActionStep with the model's output and the tool call
recorded_step(response) ==
    LET model_message == ChatMessage(response)
        tool_call == selected_tool_call(model_message.tool_calls)
    IN [memory_step EXCEPT
          !.model_output_message = Some(model_message.content),
          !.model_output = Some(SelectSeq(model_message.raw.content_list, is_tool_use)),
          !.tool_calls = Some(<<ToolCall(tool_call.name, tool_call.arguments, tool_call.id)>>)]

\* step() lines 218-242: the final_answer tool ends the step with the answer
FinalAnswer(response) ==
    /\ response.status = "ok"
    /\ Len(ChatMessage(response).tool_calls) > 0
    /\ LET tool_call == selected_tool_call(ChatMessage(response).tool_calls)
           final_answer == final_answer_of(answer_of(tool_call.arguments), state)
       IN /\ tool_call.name = "final_answer"
          /\ memory' = SetStep([recorded_step(response) EXCEPT
                 !.action_output = IF final_answer = PyNone THEN None
                                   ELSE Some(final_answer)])
          /\ result' = Returned(final_answer)
    /\ pc' = "step_done"
    /\ UNCHANGED <<pending, raised, trace>>

\* step() lines 243-246 and execute_tool_call lines 286-304: another tool is
\* looked up, its arguments are substituted and it is invoked
CallTool(response) ==
    /\ response.status = "ok"
    /\ Len(ChatMessage(response).tool_calls) > 0
    /\ LET tool_call == selected_tool_call(ChatMessage(response).tool_calls)
           tool_name == tool_call.name
           tool_arguments == IF tool_call.arguments = PyNone
                             THEN PyDict(EmptyItems) ELSE tool_call.arguments
           arguments == _substitute_state_variables(tool_arguments, state)
           is_managed_agent == tool_name \in Range(managed_agents)
       IN /\ tool_name # "final_answer"
          /\ memory' = SetStep(recorded_step(response))
          /\ IF tool_name \notin Range(available_tools(tools, managed_agents))
             THEN /\ result' = Raised(unknown_tool(tool_name))
                  /\ pc' = "step_done"
                  /\ UNCHANGED <<pending, raised, trace>>
             ELSE IF isinstance(arguments, "dict") \/ isinstance(arguments, "str")
             THEN /\ pending' = [tool_name |-> tool_name, arguments |-> arguments,
                                 tool_id |-> tool_call.id,
                                 is_managed_agent |-> is_managed_agent]
                  /\ trace' = Append(trace,
                         ToolEvent(step_number, tool_name, arguments, tool_call.id))
                  /\ pc' = "awaiting_tool"
                  /\ UNCHANGED <<result, raised>>
             ELSE /\ result' = Raised(on_TypeError(tool_name, arguments,
                                          is_managed_agent))
                  /\ raised' = Some("TypeError")
                  /\ pc' = "step_done"
                  /\ UNCHANGED <<pending, trace>>

\* A step whose final answer takes the key it reads out of the State Store.
ModelResponds_Pop ==
    /\ pc = "awaiting_model"
    /\ \E response \in gateway_responses :
          \/ GatewayRaises(response)
          \/ NoToolCalls(response)
          \/ FinalAnswer(response)
          \/ CallTool(response)
    /\ state' = IF /\ memory'[Len(memory)].tool_calls # None
                   /\ memory'[Len(memory)].tool_calls[1][1].name = "final_answer"
                THEN [k \in DOMAIN state \ {answer_of(
                          memory'[Len(memory)].tool_calls[1][1].arguments).v} |-> state[k]]
                ELSE state
    /\ UNCHANGED <<client_vars, judge_vars, tools, tool_inputs, managed_agents, max_steps, step_number,
                   input_messages, request_tools, outcome, projections>>

\* The model call returns or raises, and step() runs on to its end or to
\* the tool invocation.
ModelResponds ==
    /\ pc = "awaiting_model"
    /\ \E response \in gateway_responses :
          \/ GatewayRaises(response)
          \/ NoToolCalls(response)
          \/ FinalAnswer(response)
          \/ CallTool(response)
    /\ UNCHANGED <<client_vars, judge_vars, tools, tool_inputs, managed_agents, state, max_steps, step_number,
                   input_messages, request_tools, outcome, projections>>

\* An execute_tool_call that invokes the tool a second time.
ToolResponds_Retry ==
    /\ pc = "awaiting_tool"
    /\ Len(trace) < 2 * max_steps + 1
    /\ trace' = Append(trace,
           [ev |-> "tool", step |-> step_number, name |-> pending.tool_name,
            arguments |-> pending.arguments, id |-> pending.tool_id])
    /\ UNCHANGED <<client_vars, judge_vars, tools, tool_inputs, managed_agents, state, max_steps, memory, step_number,
                   input_messages, pc, pending, result, request_tools, raised,
                   outcome, projections>>

\* execute_tool_call lines 306-353 and step() lines 247-253: the tool
\* returned or raised
ToolResponds ==
    /\ pc = "awaiting_tool"
    /\ \E tool_outcome \in ToolOutcomes :
       /\ raised' = IF tool_outcome = "returns" THEN None ELSE Some(tool_outcome)
       /\ CASE tool_outcome = "returns" ->
                 /\ memory' = SetStep([memory_step EXCEPT
                        !.observations = Some(<<tool_results_item(pending.tool_id,
                                                   pending.tool_name, ToolResult, None)>>)])
                 /\ result' = Returned(PyNone)
            [] tool_outcome = "TypeError" ->
                 /\ result' = Raised(on_TypeError(pending.tool_name, pending.arguments,
                                         pending.is_managed_agent))
                 /\ UNCHANGED memory
            [] OTHER ->
                 /\ result' = Raised(on_Exception(pending.tool_name, pending.arguments,
                                         pending.is_managed_agent, tool_outcome))
                 /\ UNCHANGED memory
    /\ pending' = NoPending
    /\ pc' = "step_done"
    /\ UNCHANGED <<client_vars, judge_vars, tools, tool_inputs, managed_agents, state, max_steps, step_number,
                   input_messages, request_tools, outcome, trace, projections>>

\* The loop after step(): a final answer ends the run; a parsing error
\* aborts it; an argument, execution or unknown-tool error becomes the
\* step's error and the loop goes on; any other exception leaves the loop.
StepEnd ==
    /\ pc = "step_done"
    /\ CASE result.kind = "return" /\ result.value # PyNone ->
              /\ outcome' = [kind |-> "final_answer", value |-> result.value, exc |-> None]
              /\ pc' = "done"
              /\ UNCHANGED <<memory, step_number>>
         [] result.kind = "return" /\ result.value = PyNone ->
              /\ step_number' = step_number + 1
              /\ pc' = "running"
              /\ UNCHANGED <<memory, outcome>>
         [] result.kind = "raise" /\ result.exc[1].class = "AgentParsingError" ->
              /\ memory' = SetStep([memory_step EXCEPT !.error = result.exc])
              /\ outcome' = [kind |-> "parsing_error", value |-> PyNone, exc |-> result.exc]
              /\ pc' = "done"
              /\ UNCHANGED step_number
         [] result.kind = "raise"
            /\ result.exc[1].class \in {"AgentToolCallError", "AgentToolExecutionError"} ->
              /\ memory' = SetStep([memory_step EXCEPT !.error = result.exc])
              /\ step_number' = step_number + 1
              /\ pc' = "running"
              /\ UNCHANGED outcome
         [] OTHER ->
              /\ outcome' = [kind |-> "uncaught", value |-> PyNone, exc |-> result.exc]
              /\ pc' = "done"
              /\ UNCHANGED <<memory, step_number>>
    /\ result' = NoResult
    /\ raised' = None
    /\ UNCHANGED <<client_vars, judge_vars, tools, tool_inputs, managed_agents, state, max_steps, input_messages,
                   pending, request_tools, trace, projections>>

\* The step budget is used up and no step gave a final answer.
MaxStepsReached ==
    /\ pc = "running"
    /\ ~budget_left
    /\ outcome' = [kind |-> "incomplete", value |-> PyNone, exc |-> None]
    /\ pc' = "done"
    /\ UNCHANGED <<client_vars, judge_vars, tools, tool_inputs, managed_agents, state, max_steps, memory, step_number,
                   input_messages, pending, result, request_tools, raised, trace,
                   projections>>

MaxProjections == 2

\* A caller projects the Memory Log between two steps or after the run.
Project ==
    /\ pc \in {"running", "done"}
    /\ Len(projections) < MaxProjections
    /\ projections' = Append(projections, write_memory_to_messages(memory))
    /\ UNCHANGED <<client_vars, judge_vars, tools, tool_inputs, managed_agents, state, max_steps, memory, step_number,
                   input_messages, pc, pending, result, request_tools, raised,
                   outcome, trace>>

Next ==
    \/ StepStart
    \/ ModelResponds
    \/ ToolResponds
    \/ StepEnd
    \/ MaxStepsReached
    \/ Project

Spec == Init /\ [][Next]_all_vars

\* The agent before its run, with the first registry and an empty State Store.
AgentIdle ==
    /\ tools = <<"final_answer", "bar">>
    /\ tool_inputs = [n \in {"final_answer", "bar"} |->
                         IF n = "final_answer" THEN AnswerAny ELSE BarInputs]
    /\ managed_agents = <<>>
    /\ state = [k \in {} |-> Str("")]
    /\ max_steps = 1
    /\ memory = <<TaskStep(Task)>>
    /\ step_number = 1
    /\ input_messages = <<>>
    /\ pc = "running"
    /\ pending = NoPending
    /\ result = NoResult
    /\ request_tools = None
    /\ raised = None
    /\ outcome = NoOutcome
    /\ trace = <<>>
    /\ projections = <<>>

(* The SnowflakeClient on its own *)

InitClient == AgentIdle /\ JudgeIdle /\ ClientIdle

NextClient ==
    \/ Construct
    \/ GetToken
    \/ ClockAdvances

SpecClient == InitClient /\ [][NextClient]_all_vars

(* The JudgeAgent on its own *)

InitJudge ==
    /\ AgentIdle
    /\ ClientIdle
    /\ \E strategies \in StrategyLists :
          validation_strategies = strategies_or_default(strategies)
    /\ judge_pc = "idle"
    /\ position = 0
    /\ results = NoResults
    /\ invoked = <<>>
    /\ runs = 0
    /\ queries = <<>>
    /\ run_raised = None

NextJudge ==
    \/ JudgeRun
    \/ Validate
    \/ AllPassed

SpecJudge == InitJudge /\ [][NextJudge]_all_vars

----------------------------------------------------------------------------
(* The claims *)

ActionSteps == { i \in DOMAIN memory : memory[i].type = "ActionStep" }
ToolEvents(n) == { j \in DOMAIN trace : trace[j].ev = "tool" /\ trace[j].step = n }
ModelEvents(n) == { j \in DOMAIN trace : trace[j].ev = "model" /\ trace[j].step = n }
\* the loop has dealt with the step at position i
StepFinished(i) == i < Len(memory) \/ pc \in {"running", "done"}
IsKey(leaf) == leaf.t = "str" /\ leaf.v \in DOMAIN state

\* C1: whenever the response of a step carried one or more tool calls (the
\* tool_use items kept as the step's model output, in response order), the
\* step records exactly one ToolCall, the first item's, and every tool
\* invocation of the step is that of the first item: at most one, with the
\* first item's name and call id.
C1_FirstToolCallOnly ==
    \A i \in ActionSteps :
        memory[i].model_output # None =>
            LET first == memory[i].model_output[1][1]
            IN /\ memory[i].tool_calls # None
               /\ Len(memory[i].tool_calls[1]) = 1
               /\ memory[i].tool_calls[1][1].name = first.name
               /\ memory[i].tool_calls[1][1].arguments = first.input
               /\ memory[i].tool_calls[1][1].id = first.tool_use_id
               /\ Cardinality(ToolEvents(memory[i].step_number)) <= 1
               /\ \A j \in ToolEvents(memory[i].step_number) :
                      /\ trace[j].name = first.name
                      /\ trace[j].id = first.tool_use_id

C1_Witness ==
    \E i \in ActionSteps :
        /\ memory[i].model_output # None
        /\ Len(memory[i].model_output[1]) = 2
        /\ memory[i].observations # None
        /\ ToolEvents(memory[i].step_number) # {}

\* C2: a step whose response came back without a tool call (the model's
\* text is kept, no model output is) leaves with the "Model did not call any
\* tools" parsing error, invokes no tool, and is the last step of the run:
\* the run ends with the parsing error as its outcome.
C2_NoToolCallAborts ==
    \A i \in ActionSteps :
        (memory[i].model_output_message # None /\ memory[i].model_output = None) =>
            /\ i = Len(memory)
            /\ ToolEvents(memory[i].step_number) = {}
            /\ memory[i].observations = None
            /\ \/ /\ pc = "step_done"
                  /\ result.kind = "raise"
                  /\ result.exc[1].class = "AgentParsingError"
                  /\ result.exc[1].template = "Model did not call any tools"
               \/ /\ pc = "done"
                  /\ outcome.kind = "parsing_error"
                  /\ memory[i].error = outcome.exc
                  /\ outcome.exc[1].class = "AgentParsingError"

C2_Witness ==
    /\ pc = "done"
    /\ outcome.kind = "parsing_error"
    /\ memory[Len(memory)].model_output_message # None
    /\ memory[Len(memory)].model_output = None
    /\ Len(memory) < max_steps + 1

\* C3: when a tool is invoked for a tool call whose arguments are a mapping,
\* the arguments it is invoked with have the same names, every value that is
\* a string equal to a State Store key is the stored value, and every string
\* that equals no key is the string itself.
C3_Substitution ==
    \A j \in DOMAIN trace :
        trace[j].ev = "tool" =>
            LET literal == memory[trace[j].step + 1].tool_calls[1][1].arguments
                dispatched == trace[j].arguments
            IN isinstance(literal, "dict") =>
                  /\ isinstance(dispatched, "dict")
                  /\ DOMAIN dispatched.d = DOMAIN literal.d
                  /\ \A key \in DOMAIN literal.d :
                        literal.d[key].t = "str" =>
                            dispatched.d[key] =
                                IF literal.d[key].v \in DOMAIN state
                                THEN state[literal.d[key].v]
                                ELSE literal.d[key]

C3_Witness ==
    \E j \in DOMAIN trace :
        /\ trace[j].ev = "tool"
        /\ Key \in DOMAIN state
        /\ memory[trace[j].step + 1].tool_calls[1][1].arguments = MixedArguments
        /\ trace[j].arguments.d["data"] = state[Key]
        /\ trace[j].arguments.d["data"] # Str(Key)
        /\ trace[j].arguments.d["q"] = Str(Literal)

\* C4: when step() has returned from a final_answer tool call, the value it
\* returned is the stored value if the answer (the "answer" item of the
\* arguments, or the arguments themselves when they are a bare string) is a
\* string equal to a State Store key, and the literal answer otherwise
\* (the arguments themselves when they hold no "answer" and are no string).
C4_FinalAnswerResolution ==
    (pc = "step_done" /\ memory_step.tool_calls # None
        /\ memory_step.tool_calls[1][1].name = "final_answer") =>
        LET arguments == memory_step.tool_calls[1][1].arguments
        IN /\ result.kind = "return"
           /\ (isinstance(arguments, "dict") /\ "answer" \in DOMAIN arguments.d) =>
                 result.value = IF IsKey(arguments.d["answer"])
                                THEN Lift(state[arguments.d["answer"].v])
                                ELSE Lift(arguments.d["answer"])
           /\ isinstance(arguments, "str") =>
                 result.value = IF IsKey(arguments)
                                THEN Lift(state[arguments.v])
                                ELSE arguments
           /\ (~isinstance(arguments, "str")
                  /\ ~(isinstance(arguments, "dict") /\ "answer" \in DOMAIN arguments.d)) =>
                 result.value = arguments

C4_Witness ==
    /\ pc = "step_done"
    /\ memory_step.tool_calls # None
    /\ memory_step.tool_calls[1][1].name = "final_answer"
    /\ memory_step.tool_calls[1][1].arguments = PyDict(Items1("answer", Str(Key)))
    /\ Key \in DOMAIN state
    /\ result.value = Lift(state[Key])
    /\ result.value # PyStr(Key)

Registered == Range(tools) \cup Range(managed_agents)

\* C6: when step() has left a tool call, other than final_answer, whose name
\* is in neither registry, it has raised the unknown-tool error, the names
\* the error lists are the registered tool and managed-agent names, each
\* once, and no tool was invoked; and the unknown-tool error is raised for
\* no registered name.
C6_UnknownTool ==
    (pc = "step_done" /\ memory_step.tool_calls # None
        /\ memory_step.tool_calls[1][1].name # "final_answer") =>
        LET tool_name == memory_step.tool_calls[1][1].name
            unknown == /\ result.kind = "raise"
                       /\ result.exc[1].template = "Unknown tool"
        IN /\ tool_name \notin Registered =>
                 /\ unknown
                 /\ result.exc[1].class = "AgentToolExecutionError"
                 /\ result.exc[1].tool_name = tool_name
                 /\ Range(result.exc[1].listed) = Registered
                 /\ Len(result.exc[1].listed) = Cardinality(Registered)
                 /\ ToolEvents(step_number) = {}
           /\ unknown => tool_name \notin Registered

C6_Witness ==
    /\ pc = "step_done"
    /\ result.kind = "raise"
    /\ result.exc[1].template = "Unknown tool"
    /\ result.exc[1].tool_name = "foo"
    /\ result.exc[1].listed = <<"final_answer", "bar", "baz", "team">>

\* the messages sent to the model at the step at position i hold the error e
PromptHolds(i, e) ==
    \E m \in DOMAIN memory[i].model_input_messages[1] :
        memory[i].model_input_messages[1][m].content.error = e

\* C7: when the loop has dealt with a step whose tool invocation failed (a
\* tool was invoked and no observation came), the step's error is the
\* argument error or the execution error, the run was not aborted, and the
\* messages of the next step, if there is one, hold that error.
C7_ToolFailureRecorded ==
    \A i \in ActionSteps :
        (StepFinished(i) /\ ToolEvents(memory[i].step_number) # {}
            /\ memory[i].observations = None) =>
            /\ memory[i].error # None
            /\ memory[i].error[1].class \in {"AgentToolCallError", "AgentToolExecutionError"}
            /\ outcome.kind \notin {"uncaught", "parsing_error"} \/ i < Len(memory)
            /\ i < Len(memory) => PromptHolds(i + 1, memory[i].error)
            /\ (i = Len(memory) /\ pc = "running") => (budget_left \/ ENABLED MaxStepsReached)

\* C8: a run never has more ActionSteps than the configured step budget; a
\* run that ends with no step having given a final answer and no error
\* having aborted it ends "incomplete", after exactly max_steps steps, and
\* that outcome carries no error.
C8_StepBudget ==
    /\ Cardinality(ActionSteps) <= max_steps
    /\ outcome.kind = "incomplete" =>
          /\ pc = "done"
          /\ Cardinality(ActionSteps) = max_steps
          /\ outcome.exc = None
          /\ \A i \in ActionSteps : memory[i].action_output = None
    /\ (pc = "done" /\ outcome.exc = None
           /\ \A i \in ActionSteps : memory[i].action_output = None) =>
          outcome.kind = "incomplete"

C8_Witness ==
    /\ pc = "done"
    /\ outcome.kind = "incomplete"
    /\ max_steps = 2
    /\ memory[2].error # None
    /\ memory[3].observations # None

\* C9: a step whose gateway call raised (no model text was kept) has made
\* exactly one model call and no tool invocation, has recorded no tool call,
\* and leaves with the one parsing error "Error while generating or parsing
\* output", whatever the cause.
C9_GatewayFailure ==
    \A i \in ActionSteps :
        memory[i].model_output_message = None =>
            /\ Cardinality(ModelEvents(memory[i].step_number)) = 1
            /\ ToolEvents(memory[i].step_number) = {}
            /\ memory[i].tool_calls = None
            /\ memory[i].observations = None
            /\ (i = Len(memory) /\ pc = "step_done") =>
                  /\ result.kind = "raise"
                  /\ result.exc[1].class = "AgentParsingError"
                  /\ result.exc[1].template = "Error while generating or parsing output"
                  /\ result.exc[1].cause \in GatewayFailures

C9_Witness ==
    /\ pc = "step_done"
    /\ step_number = 2
    /\ memory_step.model_output_message = None
    /\ result.kind = "raise"
    /\ result.exc[1].cause = "HTTPError"

\* C10: every step that has begun has made exactly one model call, and at
\* most one tool invocation; a tool invocation comes after the model call
\* of its step, for the tool call that step has recorded; and the calls of
\* a step come after all calls of the steps before it, the call in flight
\* being the last one.
C10_StepOrder ==
    /\ \A i \in ActionSteps :
          /\ memory[i].step_number = i - 1
          /\ Cardinality(ModelEvents(i - 1)) = 1
          /\ Cardinality(ToolEvents(i - 1)) <= 1
    /\ \A j \in DOMAIN trace :
          /\ trace[j].step + 1 \in ActionSteps
          /\ \A k \in DOMAIN trace : k < j => trace[k].step <= trace[j].step
          /\ trace[j].ev = "tool" =>
                /\ \E k \in ModelEvents(trace[j].step) : k < j
                /\ memory[trace[j].step + 1].tool_calls # None
                /\ memory[trace[j].step + 1].tool_calls[1][1].name = trace[j].name
                /\ memory[trace[j].step + 1].tool_calls[1][1].id = trace[j].id
    /\ pc = "awaiting_model" =>
          (trace[Len(trace)].ev = "model" /\ trace[Len(trace)].step = step_number)
    /\ pc = "awaiting_tool" =>
          (trace[Len(trace)].ev = "tool" /\ trace[Len(trace)].step = step_number)

C10_Witness ==
    /\ pc = "running"
    /\ Len(trace) = 4
    /\ trace[2].ev = "tool"
    /\ trace[4].ev = "tool"

\* The arguments the model wrote for the tool call that tool event j belongs to.
literal_arguments(j) == memory[trace[j].step + 1].tool_calls[1][1].arguments

Set01(field) == IF field # None THEN 1 ELSE 0
messages_of(step) ==
    IF step.type = "TaskStep" THEN 1
    ELSE Set01(step.model_output) + Set01(step.observations) + Set01(step.error)

RECURSIVE messages_before(_, _)
messages_before(steps, i) ==
    IF i <= 1 THEN 0
    ELSE messages_before(steps, i - 1) + messages_of(steps[i - 1])

\* C12: every projection of the Memory Log starts with the system prompt
\* message and holds nothing but the messages of the steps, step after step
\* in the order of the log: for a TaskStep one user message "New task", for
\* an ActionStep the assistant message with the model output, then the user
\* message with the observation, then the user message with the error, each
\* one there exactly when the field of the step is set.
C12_ProjectionOrder ==
    \A p \in DOMAIN projections :
        LET messages == projections[p]
        IN /\ Len(messages) = 1 + messages_before(memory, Len(memory) + 1)
           /\ messages[1].role = "system"
           /\ messages[1].content.text = SystemPrompt
           /\ \A i \in DOMAIN memory :
                 LET step == memory[i]
                     at == 1 + messages_before(memory, i)
                     a == Set01(step.model_output)
                     o == Set01(step.observations)
                 IN IF step.type = "TaskStep"
                    THEN /\ messages[at + 1].role = "user"
                         /\ messages[at + 1].content.tag = "New task:"
                         /\ messages[at + 1].content.text = step.task
                    ELSE /\ step.model_output # None =>
                               /\ messages[at + 1].role = "assistant"
                               /\ messages[at + 1].content_list = step.model_output[1]
                         /\ step.observations # None =>
                               /\ messages[at + a + 1].role = "user"
                               /\ messages[at + a + 1].content_list = step.observations[1]
                         /\ step.error # None =>
                               /\ messages[at + a + o + 1].role = "user"
                               /\ messages[at + a + o + 1].content.tag = "error"
                               /\ messages[at + a + o + 1].content.error = step.error

C12_Witness ==
    /\ Len(projections) > 0
    /\ Len(memory) = 3
    /\ memory[2].model_output # None
    /\ memory[2].observations # None
    /\ memory[3].model_output # None
    /\ memory[3].error # None
    /\ Len(projections[1]) = 6

\* C13: when the invocation of a tool or managed agent has raised, step()
\* leaves with exactly one of two errors: after a TypeError an argument
\* error (AgentToolCallError), which for a tool echoes the tool's expected
\* inputs and output type; after any other exception an execution error
\* (AgentToolExecutionError), which for a tool carries the exception's type
\* name and text and no hint at the expected inputs.
C13_TwoErrorKinds ==
    (pc = "step_done" /\ raised # None) =>
        /\ result.kind = "raise"
        /\ LET e == result.exc[1]
               is_tool == memory_step.tool_calls[1][1].name \notin Range(managed_agents)
           IN IF raised[1] = "TypeError"
              THEN /\ e.class = "AgentToolCallError"
                   /\ is_tool => e.schema
              ELSE /\ e.class = "AgentToolExecutionError"
                   /\ is_tool => (e.cause = raised[1] \o ": " \o ExcText /\ ~e.schema)

\* C15: whatever is raised while a registered tool or managed agent is
\* invoked, execute_tool_call is left with an AgentToolCallError or an
\* AgentToolExecutionError and with nothing else, whatever values the
\* substituted arguments hold.
C15_OnlyAgentErrors ==
    (pc = "step_done" /\ raised # None) =>
        /\ result.kind = "raise"
        /\ result.exc[1].class \in {"AgentToolCallError", "AgentToolExecutionError"}

\* C14: in the tool list of every request that is built, the tools come in
\* registry order, each with the properties it declares; the 'answer'
\* property of final_answer has type "string" whatever type is declared,
\* every other property of final_answer and every property of every other
\* tool is as declared; and with a final_answer tool that declares no
\* 'answer' no tool list is built: the model call raises and the step
\* leaves with a parsing error.
C14_ToolSchemas ==
    /\ request_tools # None =>
          /\ Len(request_tools[1]) = Len(tools)
          /\ \A k \in DOMAIN tools :
                LET sent == request_tools[1][k].tool_spec
                    declared == tool_inputs[tools[k]]
                IN /\ sent.name = tools[k]
                   /\ DOMAIN sent.input_schema.properties = DOMAIN declared
                   /\ \A key \in DOMAIN declared :
                         IF tools[k] = "final_answer" /\ key = "answer"
                         THEN sent.input_schema.properties[key].type = "string"
                         ELSE sent.input_schema.properties[key] = declared[key]
    /\ ("final_answer" \in Range(tools)
        /\ "answer" \notin DOMAIN tool_inputs["final_answer"]) =>
          /\ request_tools = None
          /\ \A j \in DOMAIN trace : trace[j].ev = "model"
          /\ pc = "step_done" =>
                /\ result.kind = "raise"
                /\ result.exc[1].class = "AgentParsingError"
                /\ result.exc[1].cause = "ValueError"

C14_Witness ==
    /\ request_tools # None
    /\ pc = "awaiting_model"
    /\ \E k \in DOMAIN tools :
          /\ tools[k] = "final_answer"
          /\ tool_inputs[tools[k]]["answer"].type = "object"
          /\ request_tools[1][k].tool_spec.input_schema.properties["answer"].type = "string"
          /\ request_tools[1][k].tool_spec.input_schema.properties["note"].type = "integer"

IsPrefix(s, t) == Len(s) <= Len(t) /\ SubSeq(t, 1, Len(s)) = s
sent_messages(i) == memory[i].model_input_messages[1]

\* C16: the messages sent to the model at a step are the projection of the
\* Memory Log as it stands when the step begins: the system prompt, the
\* task, and the messages of every ActionStep before it.  So the first
\* step sends exactly the system prompt message and the "New task" message,
\* and what a step sends is a prefix of what the next step sends.
C16_FullProjectionSent ==
    /\ \A i \in ActionSteps :
          /\ memory[i].model_input_messages # None
          /\ sent_messages(i) = write_memory_to_messages(SubSeq(memory, 1, i - 1))
          /\ i = 2 =>
                /\ Len(sent_messages(i)) = 2
                /\ sent_messages(i)[1] = system_prompt_to_messages(SystemPrompt)[1]
                /\ sent_messages(i)[2].role = "user"
                /\ sent_messages(i)[2].content.tag = "New task:"
                /\ sent_messages(i)[2].content.text = Task
          /\ i + 1 \in ActionSteps => IsPrefix(sent_messages(i), sent_messages(i + 1))
    /\ pc = "awaiting_model" => input_messages = sent_messages(Len(memory))

C16_Witness ==
    /\ pc = "awaiting_model"
    /\ Len(memory) = 3
    /\ memory[2].observations # None
    /\ Len(input_messages) = 4
    /\ Len(sent_messages(2)) = 2

\* C17: the Memory Log only grows at its end, and a step the loop has dealt
\* with never changes again: whatever happens next (a later step, a
\* projection, a tool invocation, a substitution), every such step is still
\* at its position with the same input messages, model output, tool call,
\* observation, error and final answer.
C17_AppendOnly ==
    [][ /\ Len(memory') >= Len(memory)
        /\ \A i \in DOMAIN memory :
              StepFinished(i) => (i \in DOMAIN memory' /\ memory'[i] = memory[i]) ]_vars

C17_Witness ==
    /\ pc = "step_done"
    /\ Len(memory) = 3
    /\ memory[2].observations # None
    /\ memory[3].tool_calls # None
    /\ result.kind = "raise"

\* C18: a step whose tool call is final_answer invokes no tool or managed
\* agent and has no observation; it returns the answer resolved against the
\* State Store and keeps it as its action output; and it is the last step:
\* the run ends with that answer, with no model call or tool invocation
\* after it.
C18_FinalAnswerTerminal ==
    \A i \in ActionSteps :
        (memory[i].tool_calls # None /\ memory[i].tool_calls[1][1].name = "final_answer") =>
            LET resolved == final_answer_of(answer_of(memory[i].tool_calls[1][1].arguments),
                                            state)
            IN /\ ToolEvents(memory[i].step_number) = {}
               /\ memory[i].observations = None
               /\ \/ memory[i].action_output = Some(resolved)
                  \/ resolved = PyNone /\ memory[i].action_output = None
               /\ i = Len(memory)
               /\ \A j \in DOMAIN trace : trace[j].step <= memory[i].step_number
               /\ \/ pc = "step_done" /\ result = Returned(resolved)
                  \/ /\ pc = "done"
                     /\ outcome.kind = "final_answer"
                     /\ outcome.value = resolved

\* the step in flight got a tool result / is a final-answer step
ToolResultStep == pc = "awaiting_tool" /\ result'.kind = "return"
FinalAnswerStep ==
    /\ pc = "awaiting_model"
    /\ memory'[Len(memory')].tool_calls # None
    /\ memory'[Len(memory')].tool_calls[1][1].name = "final_answer"

\* C19: nothing but a tool result or a final-answer step changes the State
\* Store: the substitution of arguments, a projection, a tool invocation
\* that fails, a parsing error, an unknown tool and the loop's own steps
\* leave its keys and values as they are; and a final-answer step leaves
\* every key in place, with its value.
C19_StateStoreFrame ==
    [][ /\ ~(ToolResultStep \/ FinalAnswerStep) => state' = state
        /\ FinalAnswerStep =>
              \A k \in DOMAIN state : k \in DOMAIN state' /\ state'[k] = state[k] ]_vars

C19_Witness ==
    /\ pc = "done"
    /\ outcome.kind = "final_answer"
    /\ Key \in DOMAIN state
    /\ outcome.value = Lift(state[Key])
    /\ Len(memory) = 3
    /\ memory[2].error # None
    /\ Len(projections) > 0

\* C20: when a tool is invoked for a tool call whose arguments are a
\* mapping, a value that is not a string reaches the tool as the model wrote
\* it, also when it holds a string equal to a State Store key, and so does a
\* string that holds a key as a part of it without being equal to one.
C20_WholeStringTopLevel ==
    \A j \in DOMAIN trace :
        (trace[j].ev = "tool" /\ isinstance(literal_arguments(j), "dict")) =>
            \A key \in DOMAIN literal_arguments(j).d :
                LET value == literal_arguments(j).d[key]
                IN (value.t # "str" \/ value.v \notin DOMAIN state) =>
                       /\ key \in DOMAIN trace[j].arguments.d
                       /\ trace[j].arguments.d[key] = value

C20_Witness ==
    \E j \in DOMAIN trace :
        /\ pc = "awaiting_tool"
        /\ trace[j].ev = "tool"
        /\ Key \in DOMAIN state
        /\ literal_arguments(j) = MixedArguments
        /\ trace[j].arguments.d["opts"] = List(Key)
        /\ trace[j].arguments.d["q"] = Str(Literal)
        /\ trace[j].arguments.d["data"] = state[Key]

\* every tool_use item of every assistant message of the list is answered,
\* in the user message right after it, by a tool_results item with its call id
ToolUsesAnswered(messages) ==
    \A m \in DOMAIN messages :
        messages[m].role = "assistant" =>
            \A u \in DOMAIN messages[m].content_list :
                messages[m].content_list[u].type = "tool_use" =>
                    /\ m + 1 \in DOMAIN messages
                    /\ messages[m + 1].role = "user"
                    /\ \E r \in DOMAIN messages[m + 1].content_list :
                          /\ messages[m + 1].content_list[r].type = "tool_results"
                          /\ messages[m + 1].content_list[r].tool_use_id =
                                 messages[m].content_list[u].tool_use_id

\* C22: in every message list sent to the model and in every projection of
\* the Memory Log, each tool_use item of an assistant message is answered by
\* a tool_results item with the same call id in the user message that
\* follows it, whatever number of tool calls the responses carried.
C22_ToolUsesAnswered ==
    /\ \A i \in ActionSteps :
          memory[i].model_input_messages # None => ToolUsesAnswered(sent_messages(i))
    /\ \A p \in DOMAIN projections : ToolUsesAnswered(projections[p])

\* C23: no ActionStep holds both an observation and an error; a step has an
\* observation only if its tool was invoked and did not raise, and then the
\* observation is one tool_results entry with the call id and the name of
\* the step's recorded ToolCall; and every ActionStep the loop has dealt
\* with stands for one or two messages of the projection.
C23_ObservationOrError ==
    /\ \A i \in ActionSteps :
          /\ ~(memory[i].observations # None /\ memory[i].error # None)
          /\ memory[i].observations # None =>
                /\ ToolEvents(memory[i].step_number) # {}
                /\ memory[i].tool_calls # None
                /\ Len(memory[i].observations[1]) = 1
                /\ memory[i].observations[1][1].type = "tool_results"
                /\ memory[i].observations[1][1].tool_use_id = memory[i].tool_calls[1][1].id
                /\ memory[i].observations[1][1].name = memory[i].tool_calls[1][1].name
          /\ StepFinished(i) => Len(action_step_to_messages(memory[i])) \in {1, 2}
    /\ (pc = "step_done" /\ raised # None) => memory_step.observations = None

C23_Witness ==
    /\ pc = "done"
    /\ Len(memory) = 3
    /\ memory[2].observations # None
    /\ memory[2].observations[1][1].tool_use_id = "id1"
    /\ memory[3].error # None
    /\ memory[3].model_output = None

\* C24: the ToolCall recorded on an ActionStep carries the arguments as the
\* model wrote them in the first tool_use item, also when the tool was
\* invoked with State Store values in their place, and so does the
\* assistant message that replays the step to the model.
C24_LiteralArgumentsRecorded ==
    /\ \A i \in ActionSteps :
          memory[i].tool_calls # None =>
              /\ memory[i].tool_calls[1][1].arguments = memory[i].model_output[1][1].input
              /\ \A j \in ToolEvents(memory[i].step_number) :
                    (/\ isinstance(literal_arguments(j), "dict")
                     /\ \E key \in DOMAIN literal_arguments(j).d :
                           IsKey(literal_arguments(j).d[key])) =>
                        /\ trace[j].arguments # memory[i].tool_calls[1][1].arguments
                        /\ \A key \in DOMAIN literal_arguments(j).d :
                              IsKey(literal_arguments(j).d[key]) =>
                                  memory[i].tool_calls[1][1].arguments.d[key].v \in DOMAIN state
    /\ \A i \in ActionSteps :
          (i > 2 /\ memory[i].model_input_messages # None
                 /\ memory[i - 1].tool_calls # None) =>
              \E m \in DOMAIN sent_messages(i) :
                  /\ sent_messages(i)[m].role = "assistant"
                  /\ sent_messages(i)[m].content_list = memory[i - 1].model_output[1]
                  /\ sent_messages(i)[m].content_list[1].input =
                         memory[i - 1].tool_calls[1][1].arguments

C24_Witness ==
    /\ pc = "awaiting_model"
    /\ Len(memory) = 3
    /\ Key \in DOMAIN state
    /\ memory[2].tool_calls # None
    /\ memory[2].tool_calls[1][1].arguments = MixedArguments
    /\ memory[2].observations # None
    /\ \E j \in ToolEvents(1) : trace[j].arguments.d["data"] = state[Key]
    /\ input_messages[3].content_list[1].input = MixedArguments

\* action_step_to_messages raises on this step: it has an observation and
\* no input messages to take the content from (line 387)
action_step_to_messages_raises(step) ==
    /\ step.observations # None
    /\ \/ step.model_input_messages = None
       \/ step.model_input_messages[1] = <<>>

\* C25: the projection is defined on every Memory Log the loop produces: no
\* ActionStep, whichever of its fields are set (none but the error after a
\* gateway failure, the model's text and the error after a response without
\* a tool call, the tool call and the error after an unknown or a failed
\* tool, the observation after a tool that returned, the action output
\* after a final answer), makes action_step_to_messages raise, and every
\* projection made is a message list that begins with the system prompt.
C25_ProjectionTotal ==
    /\ \A i \in ActionSteps : ~action_step_to_messages_raises(memory[i])
    /\ \A p \in DOMAIN projections :
          /\ Len(projections[p]) >= 2
          /\ projections[p][1].role = "system"

C25_Witness ==
    /\ pc = "done"
    /\ Len(projections) > 0
    /\ Len(memory) = 3
    /\ memory[2].observations # None
    /\ memory[3].model_output = None
    /\ memory[3].tool_calls = None
    /\ memory[3].error # None
    /\ outcome.kind = "parsing_error"

\* C21: run() asks the strategies in the order of the list, the default
\* list being syntax, execution, semantic; the results hold an entry, under
\* its class name, for every strategy asked and for no other; every verdict
\* before the last one asked was valid; an invalid verdict ends run() with
\* no strategy asked after it; and run() returns either after an invalid
\* verdict or with every strategy asked and every entry valid.
C21_ShortCircuit ==
    /\ Len(invoked) <= Len(validation_strategies)
    /\ invoked = SubSeq(validation_strategies, 1, Len(invoked))
    /\ DOMAIN results = Range(invoked)
    /\ \A k \in DOMAIN invoked :
          (k < Len(invoked) /\ \A l \in DOMAIN invoked : l > k => invoked[l] # invoked[k]) =>
              results[invoked[k]].valid
    /\ (Len(invoked) > 0 /\ ~results[invoked[Len(invoked)]].valid) => judge_pc = "returned"
    /\ judge_pc = "validating" => Len(invoked) = position - 1
    /\ judge_pc = "returned" =>
          \/ ~results[invoked[Len(invoked)]].valid
          \/ /\ Len(invoked) = Len(validation_strategies)
             /\ \A c \in DOMAIN results : results[c].valid

C21_Witness ==
    /\ judge_pc = "returned"
    /\ validation_strategies = DefaultStrategies
    /\ invoked = <<"SyntaxValidation", "ExecutionValidation">>
    /\ results["SyntaxValidation"].valid
    /\ ~results["ExecutionValidation"].valid
    /\ "SemanticValidation" \notin DOMAIN results

\* C26: the token a get_jwt_token call returns has not expired at the time
\* of the call: the time of the call is not past the token's own exp.
C26_TokenNotExpired ==
    token_call.kind = "returned" => token_call.at <= token_call.exp

\* C27: a SnowflakeClient() call that returns, returns the shared instance
\* with config, private key, connection and token fields all set, and
\* _initialize has completed at most once.
C27_InitialisedOrRaises ==
    /\ initialize_runs <= 1
    /\ construction.kind = "returned" =>
          /\ _instance # None
          /\ _instance[1] = Attributes(TRUE, TRUE, TRUE, TRUE)

\* C28: run() never raises: when the query fails in the warehouse, run()
\* returns results in which ExecutionValidation is invalid with the text
\* of the failure, and the strategies before it have their entries.
C28_FailedQueryReported ==
    /\ judge_pc # "raised"
    /\ run_raised = None
    /\ \A q \in DOMAIN queries :
          queries[q].kind = "raise" =>
              /\ judge_pc = "returned"
              /\ "ExecutionValidation" \in DOMAIN results
              /\ results["ExecutionValidation"] =
                     Verdict(FALSE, "Execution failed: " \o queries[q].exc)

\* C29: execute_query returns when nothing failed, and otherwise raises the
\* warehouse's own exception, wherever the failure was; and it has closed
\* every cursor it opened, once.
C29_QueryReraisesAndCloses ==
    \A q \in DOMAIN queries :
        /\ queries[q].failure_point = "none" => queries[q].kind = "return"
        /\ queries[q].failure_point # "none" =>
              (queries[q].kind = "raise" /\ queries[q].exc = WarehouseError)
        /\ queries[q].closed = queries[q].opened

====
